---------------------------- MODULE Spec2Model ----------------------------
(***************************************************************************)
(* A model of ci-doctor's analysis pipeline (src/src/ci_doctor/analysis.py) *)
(* and of the utilities it is built from (src/src/ci_doctor/utils.py).      *)
(*                                                                         *)
(* Python values are represented as follows.                               *)
(*   str            a sequence of one-character strings                    *)
(*   Optional[T]    None is <<>>, a present value v is <<v>>               *)
(*   list           a sequence                                             *)
(*   dict           a function from key strings to values                  *)
(*   a JobMeta ref  the index of the job in `jobs` (objects are shared by  *)
(*                  reference between `jobs` and `failing_jobs`)           *)
(*   timestamps     whole seconds since an epoch (GitHub's resolution)     *)
(***************************************************************************)
EXTENDS Integers, Sequences, FiniteSets, TLC

VARIABLES
    fn,       \* pure-function harness: "idle" before the call, "returned" after
    args,     \* pure-function harness: the arguments of the call
    ret,      \* pure-function harness: the value returned
    after,    \* pure-function harness: the argument objects after the call
    pc,                  \* analyze: the next step ("idle" when analyze is not running)
    run_url,             \* analyze: parameter
    want_logs,           \* analyze: parameter
    save_logs_dir,       \* analyze: parameter (Optional)
    run,                 \* analyze locals, named as in analysis.py
    jobs,                \* the JobMeta objects, shared with failing_jobs and the Report
    wf_name,
    failing_jobs,        \* references (indices) into jobs
    successes,
    last_success,
    durations,
    baseline_p50,
    cmp,
    blob,
    logs_path,
    cancellation_reason,
    calls,               \* the data-source operations invoked so far, in order
    requests,            \* the HTTP requests the provider has sent, in order
    warnings,            \* the warnings printed to stderr, by the step that raised
    faults,              \* the operations that raised an error, in order
    raised,              \* the error analyze propagated to its caller (Optional)
    report               \* the Report analyze returned (Optional)

pvars == <<fn, args, ret, after>>

avars == <<pc, run_url, requests, want_logs, save_logs_dir, run, jobs, wf_name, failing_jobs, successes,
           last_success, durations, baseline_p50, cmp, blob, logs_path,
           cancellation_reason, calls, warnings, faults, raised, report>>

vars == <<pvars, avars>>

---------------------------------------------------------------------------
(* Optional values *)

None == <<>>

Some(v) == <<v>>

IsNone(o) == o = <<>>

Val(o) == o[1]

\* the set of elements of a sequence
Range(q) == {q[i] : i \in DOMAIN q}

Min(a, b) == IF a <= b THEN a ELSE b

Max(a, b) == IF a >= b THEN a ELSE b

---------------------------------------------------------------------------
(* Python str operations on character sequences *)

UpperLetters == <<"A","B","C","D","E","F","G","H","I","J","K","L","M",
                  "N","O","P","Q","R","S","T","U","V","W","X","Y","Z">>

LowerLetters == <<"a","b","c","d","e","f","g","h","i","j","k","l","m",
                  "n","o","p","q","r","s","t","u","v","w","x","y","z">>

UpperSet == {UpperLetters[i] : i \in 1..26}

LowerChar(c) ==
    IF c \in UpperSet
    THEN LowerLetters[CHOOSE i \in 1..26 : UpperLetters[i] = c]
    ELSE c

\* str.lower()
lower(s) == [i \in 1..Len(s) |-> LowerChar(s[i])]

\* str.endswith(suffix)
endswith(s, suffix) ==
    /\ Len(suffix) <= Len(s)
    /\ SubSeq(s, Len(s) - Len(suffix) + 1, Len(s)) = suffix

\* `sub in s`
contains(sub, s) ==
    \E i \in 0..(Len(s) - Len(sub)) : SubSeq(s, i + 1, i + Len(sub)) = sub

\* (x or "")
OrEmpty(o) == IF IsNone(o) THEN <<>> ELSE Val(o)

Digits == <<"0","1","2","3","4","5","6","7","8","9">>

RECURSIVE str(_)
\* str(n) / f"{n}" of a non-negative int
str(n) == IF n < 10 THEN <<Digits[n + 1]>> ELSE str(n \div 10) \o <<Digits[(n % 10) + 1]>>

\* f"{n:02d}" of a non-negative int
fmt02d(n) == IF n < 10 THEN <<"0">> \o str(n) ELSE str(n)

\* conclusion values
FAILURE == <<"f","a","i","l","u","r","e">>

FAILED == <<"f","a","i","l","e","d">>

CANCELLED == <<"c","a","n","c","e","l","l","e","d">>

SUCCESS == <<"s","u","c","c","e","s","s">>

SKIPPED == <<"s","k","i","p","p","e","d">>

---------------------------------------------------------------------------
(* utils.median_ms *)

RECURSIVE Insert(_, _)
Insert(x, xs) ==
    IF xs = <<>> THEN <<x>>
    ELSE IF x <= Head(xs) THEN <<x>> \o xs
    ELSE <<Head(xs)>> \o Insert(x, Tail(xs))

RECURSIVE sorted(_)
\* sorted(values): a new ascending list
sorted(xs) == IF xs = <<>> THEN <<>> ELSE Insert(Head(xs), sorted(Tail(xs)))

median_ms_odd_off(values) ==
    IF values = <<>> THEN 0
    ELSE LET xs == sorted(values)
             n  == Len(xs)
         IN  IF n % 2 = 1 THEN xs[(n \div 2) + 1]
             ELSE (xs[(n \div 2) + 1] + xs[Min(n, (n \div 2) + 2)]) \div 2

median_ms(values) ==
    IF values = <<>> THEN 0
    ELSE LET xs == sorted(values)
             n  == Len(xs)
         IN  IF n % 2 = 1 THEN xs[(n \div 2) + 1]
             ELSE (xs[n \div 2] + xs[(n \div 2) + 1]) \div 2

\* The list object passed as `values` after the call: sorted() copies, the
\* argument is left as it was.
median_ms_values_after(values) == values

---------------------------------------------------------------------------
(* utils.human_ms *)

NA == <<"n","/","a">>

human_ms_le(ms) ==
    IF IsNone(ms) THEN NA
    ELSE LET int_s == Val(ms) \div 1000
             m0    == int_s \div 60
             s1    == int_s % 60
             h     == m0 \div 60
             m1    == m0 % 60
         IN  IF Val(ms) <= 60 * 1000 THEN str(int_s) \o <<"s">>
             ELSE IF m0 <= 60 THEN str(m0) \o <<"m">> \o fmt02d(s1) \o <<"s">>
             ELSE str(h) \o <<"h">> \o fmt02d(m1) \o <<"m">>

\* s = ms / 1000 is a float; s < 60 is ms < 60 * 1000, int(s) is ms div 1000
human_ms(ms) ==
    IF IsNone(ms) THEN NA
    ELSE LET int_s == Val(ms) \div 1000
             m0    == int_s \div 60
             s1    == int_s % 60
             h     == m0 \div 60
             m1    == m0 % 60
         IN  IF Val(ms) < 60 * 1000 THEN str(int_s) \o <<"s">>
             ELSE IF m0 < 60 THEN str(m0) \o <<"m">> \o fmt02d(s1) \o <<"s">>
             ELSE str(h) \o <<"h">> \o fmt02d(m1) \o <<"m">>

---------------------------------------------------------------------------
(* providers.base: the fields of RunMeta, JobMeta and CompareMeta that
   analysis.py reads *)

RunMetaOf(id, conclusion, event, started_at, updated_at) ==
    [id |-> id, conclusion |-> conclusion, event |-> event,
     started_at |-> started_at, updated_at |-> updated_at]

\* log_lines is None until the pipeline writes it
JobMetaOf(name, conclusion, steps) ==
    [name |-> name, conclusion |-> conclusion, steps |-> steps, log_lines |-> None]

CompareMetaOf(files) == [total_commits |-> 1, files |-> files]

---------------------------------------------------------------------------
(* utils.iso_to_dt, utils.duration_ms (timestamps in whole seconds) *)

duration_ms(start, end) == (end - start) * 1000

---------------------------------------------------------------------------
(* analysis.gen_suspects *)

\* dict.get(key, default)
Get(d, key, default) == IF key \in DOMAIN d THEN d[key] ELSE default

SUSPECT_DURATION == "Duration spike vs median -> cache miss, dependency install, or external service slowdown."

SUSPECT_LOCKFILE == "Dependency/lockfile changes may have broken build or invalidated caches."

SUSPECT_WORKFLOW == "Workflow changes detected -> runner image, permissions, or cache keys altered."

SUSPECT_DOCKERFILE == "Dockerfile changes -> base image/layer differences causing failures."

SUSPECT_DISPATCH == "Manual/dispatch trigger -> verify inputs/secrets."

lock_suffixes == <<
    <<"p","a","c","k","a","g","e","-","l","o","c","k",".","j","s","o","n">>,
    <<"y","a","r","n",".","l","o","c","k">>,
    <<"p","n","p","m","-","l","o","c","k",".","y","a","m","l">>,
    <<"p","o","e","t","r","y",".","l","o","c","k">>,
    <<"r","e","q","u","i","r","e","m","e","n","t","s",".","t","x","t">>,
    <<"P","i","p","f","i","l","e",".","l","o","c","k">>,
    <<"g","o",".","s","u","m">>,
    <<"C","a","r","g","o",".","l","o","c","k">>
>>

wf_names == <<
    <<".","g","i","t","h","u","b","/","w","o","r","k","f","l","o","w","s","/">>,
    <<"c","i",".","y","m","l">>,
    <<"c","i",".","y","a","m","l">>,
    <<".","g","i","t","h","u","b","/","w","o","r","k","f","l","o","w","s","/","c","i",".","y","a","m","l">>,
    <<".","g","i","t","h","u","b","/","w","o","r","k","f","l","o","w","s","/","c","i",".","y","m","l">>
>>

dockerfile_suffixes == <<<<"d","o","c","k","e","r","f","i","l","e">>, <<".","d","o","c","k","e","r","f","i","l","e">>>>

\* filenames = [f.get("filename", "") for f in (cmp.files or [])]
Filenames(diff) == [i \in 1..Len(diff.files) |-> Get(diff.files[i], "filename", <<>>)]

\* if baseline_p50_ms: ... if dur > baseline_p50_ms * 1.5
DurationSpikeRule(r, baseline_p50_ms) ==
    /\ ~IsNone(baseline_p50_ms)
    /\ Val(baseline_p50_ms) # 0
    /\ 2 * duration_ms(r.started_at, r.updated_at) > 3 * Val(baseline_p50_ms)

LockfileRule(diff) ==
    /\ ~IsNone(diff)
    /\ \E i \in DOMAIN Filenames(Val(diff)) : \E k \in DOMAIN lock_suffixes :
           endswith(Filenames(Val(diff))[i], lock_suffixes[k])

WorkflowRule(diff) ==
    /\ ~IsNone(diff)
    /\ \E i \in DOMAIN Filenames(Val(diff)) : \E k \in DOMAIN wf_names :
           contains(wf_names[k], Filenames(Val(diff))[i])

DockerfileRule(diff) ==
    /\ ~IsNone(diff)
    /\ \E i \in DOMAIN Filenames(Val(diff)) : \E k \in DOMAIN dockerfile_suffixes :
           endswith(lower(Filenames(Val(diff))[i]), dockerfile_suffixes[k])

DispatchRule(r) == r.event \in {"workflow_dispatch", "repository_dispatch"}

AppendIf(q, cond, x) == IF cond THEN Append(q, x) ELSE q

\* every suspect that fired, in the order the rules are evaluated
AllSuspects(r, diff, baseline_p50_ms) ==
    LET s1 == AppendIf(<<>>, DurationSpikeRule(r, baseline_p50_ms), SUSPECT_DURATION)
        s2 == AppendIf(s1, LockfileRule(diff), SUSPECT_LOCKFILE)
        s3 == AppendIf(s2, WorkflowRule(diff), SUSPECT_WORKFLOW)
        s4 == AppendIf(s3, DockerfileRule(diff), SUSPECT_DOCKERFILE)
    IN  AppendIf(s4, DispatchRule(r), SUSPECT_DISPATCH)

gen_suspects_last3(r, js, diff, baseline_p50_ms) ==
    LET suspects == AllSuspects(r, diff, baseline_p50_ms)
    IN  SubSeq(suspects, Max(1, Len(suspects) - 2), Len(suspects))

\* return suspects[:3]
gen_suspects(r, js, diff, baseline_p50_ms) ==
    LET suspects == AllSuspects(r, diff, baseline_p50_ms)
    IN  SubSeq(suspects, 1, Min(3, Len(suspects)))

---------------------------------------------------------------------------
(* utils.extract_failing_step_logs *)

IsDigit(c) == \E i \in 1..10 : Digits[i] = c

RECURSIVE split(_, _)
\* s.split(sep) for a one-character separator
split(s, sep) ==
    IF \E i \in 1..Len(s) : s[i] = sep
    THEN LET i == CHOOSE j \in 1..Len(s) : s[j] = sep /\ \A k \in 1..(j - 1) : s[k] # sep
         IN  <<SubSeq(s, 1, i - 1)>> \o split(SubSeq(s, i + 1, Len(s)), sep)
    ELSE <<s>>

\* s.replace(old, new) for one-character old and new
replace(s, old, new) == [i \in 1..Len(s) |-> IF s[i] = old THEN new ELSE s[i]]

\* re.compile(rf'^\d+_{re.escape(name)}.txt$', re.IGNORECASE).match(s):
\* digits, an underscore, the name, any one character, "txt", the end
numbered_txt_match(name, s) ==
    \E k \in 1..Len(s) :
        /\ \A i \in 1..k : IsDigit(s[i])
        /\ Len(s) = k + 1 + Len(name) + 4
        /\ s[k + 1] = "_"
        /\ lower(SubSeq(s, k + 2, k + 1 + Len(name))) = lower(name)
        /\ lower(SubSeq(s, Len(s) - 2, Len(s))) = <<"t", "x", "t">>

\* re.compile(rf'^\d+_{re.escape(name)}', re.IGNORECASE).match(s): a prefix
numbered_prefix_match(name, s) ==
    \E k \in 1..Len(s) :
        /\ \A i \in 1..k : IsDigit(s[i])
        /\ Len(s) >= k + 1 + Len(name)
        /\ s[k + 1] = "_"
        /\ lower(SubSeq(s, k + 2, k + 1 + Len(name))) = lower(name)

DOT_TXT == <<".","t","x","t">>

SYSTEM == <<"s","y","s","t","e","m">>

\* the first element q[i] (an Optional) whose flag hit[i] is set
FirstSuch(q, hit) ==
    IF \E i \in 1..Len(q) : hit[i]
    THEN Some(q[CHOOSE i \in 1..Len(q) : hit[i] /\ \A j \in 1..(i - 1) : ~hit[j]])
    ELSE None

\* name.split('/')[-1] if '/' in name else name
basename(name) == LET parts == split(name, "/") IN parts[Len(parts)]

\* lines 78-99: the entry found by step name
find_by_step(names, failing_step_name) ==
    IF IsNone(failing_step_name) \/ Val(failing_step_name) = <<>> THEN None
    ELSE LET step == Val(failing_step_name)
             Exact(name) ==
                 \/ ~contains(<<"/">>, name) /\ numbered_txt_match(step, name)
                 \/ LET parts == split(name, "/")
                    IN  Len(parts) = 2 /\ numbered_txt_match(step, parts[2])
             Partial(name) == contains(lower(step), lower(name)) /\ endswith(name, DOT_TXT)
             exact == FirstSuch(names, [i \in 1..Len(names) |-> Exact(names[i])])
         IN  IF ~IsNone(exact) THEN exact
             ELSE FirstSuch(names, [i \in 1..Len(names) |-> Partial(names[i])])

\* lines 101-119: the entry found by job name
find_by_job(names, failing_job_name) ==
    IF failing_job_name = <<>> THEN None
    ELSE LET Exact(name) == numbered_txt_match(failing_job_name, basename(name))
             Partial(name) ==
                 /\ numbered_prefix_match(replace(failing_job_name, " ", "_"), basename(name))
                 /\ endswith(name, DOT_TXT)
                 /\ ~contains(SYSTEM, lower(name))
             exact == FirstSuch(names, [i \in 1..Len(names) |-> Exact(names[i])])
         IN  IF ~IsNone(exact) THEN exact
             ELSE FirstSuch(names, [i \in 1..Len(names) |-> Partial(names[i])])

\* lines 75-122: log_file
locate_log_file(names, failing_job_name, failing_step_name) ==
    LET by_step == find_by_step(names, failing_step_name)
    IN  IF ~IsNone(by_step) THEN by_step ELSE find_by_job(names, failing_job_name)

error_patterns == <<
    <<"e","r","r","o","r",":">>,
    <<"E","r","r","o","r",":">>,
    <<"E","R","R","O","R",":">>,
    <<"f","a","i","l","e","d",":">>,
    <<"F","a","i","l","e","d",":">>,
    <<"F","A","I","L","E","D",":">>,
    <<"f","a","t","a","l",":">>,
    <<"F","a","t","a","l",":">>,
    <<"F","A","T","A","L",":">>,
    <<"a","s","s","e","r","t","i","o","n"," ","f","a","i","l","e","d">>,
    <<"A","s","s","e","r","t","i","o","n","E","r","r","o","r">>,
    <<"E","x","c","e","p","t","i","o","n",":">>,
    <<"T","r","a","c","e","b","a","c","k">>,
    <<"e","x","i","t"," ","c","o","d","e">>,
    <<"e","x","i","t"," ","s","t","a","t","u","s">>,
    <<"C","o","m","m","a","n","d"," ","f","a","i","l","e","d">>
>>

\* the patterns as re.IGNORECASE compares them
error_patterns_folded == [k \in DOMAIN error_patterns |-> lower(error_patterns[k])]

\* any(re.search(pattern, line, re.IGNORECASE) for pattern in error_patterns)
is_error_line(line) ==
    LET folded == lower(line)
    IN  \E k \in DOMAIN error_patterns_folded : contains(error_patterns_folded[k], folded)

\* error_indices, 0-based and ascending
ErrorIndices(lines) ==
    LET IsErr(i) == is_error_line(lines[i + 1])
    IN  SelectSeq([i \in 1..Len(lines) |-> i - 1], IsErr)

RECURSIVE AddRange(_, _, _)
\* for idx in range(start, end): if idx not in result_indices: add and append
AddRange(result, start, end) ==
    IF start >= end THEN result
    ELSE AddRange(IF \E i \in 1..Len(result) : result[i] = start
                  THEN result ELSE Append(result, start),
                  start + 1, end)

RECURSIVE CollectWindows(_, _, _, _)
\* lines 160-167: the indices of result_lines, in insertion order
CollectWindows(error_indices, n, context_lines, result) ==
    IF error_indices = <<>> THEN result
    ELSE LET err_idx == Head(error_indices)
             start   == Max(0, err_idx - context_lines)
             end     == Min(n, err_idx + context_lines + 1)
         IN  CollectWindows(Tail(error_indices), n, context_lines,
                            AddRange(result, start, end))

\* q[-n:] if len(q) > n else q
LastN(q, n) == IF Len(q) > n THEN SubSeq(q, Len(q) - n + 1, Len(q)) ELSE q

FirstN(q, n) == IF Len(q) > n THEN SubSeq(q, 1, n) ELSE q

window_excerpt_first(lines, max_lines, context_lines) ==
    LET error_indices == ErrorIndices(lines)
    IN  IF error_indices # <<>>
        THEN LET idxs == FirstN(sorted(CollectWindows(error_indices, Len(lines),
                                                     context_lines, <<>>)), max_lines)
             IN  [k \in 1..Len(idxs) |-> lines[idxs[k] + 1]]
        ELSE LastN(lines, max_lines)

\* lines 149-178: the excerpt of a located entry's lines
window_excerpt(lines, max_lines, context_lines) ==
    LET error_indices == ErrorIndices(lines)
    IN  IF error_indices # <<>>
        THEN LET idxs == LastN(sorted(CollectWindows(error_indices, Len(lines),
                                                    context_lines, <<>>)), max_lines)
             IN  [k \in 1..Len(idxs) |-> lines[idxs[k] + 1]]
        ELSE LastN(lines, max_lines)

\* zip_ref.namelist()
namelist(logs_zip) == [i \in 1..Len(logs_zip.entries) |-> logs_zip.entries[i].name]

\* zip_ref.read(log_file).decode('utf-8', errors='replace').splitlines()
read_lines(logs_zip, log_file) ==
    logs_zip.entries[CHOOSE i \in 1..Len(logs_zip.entries) :
                         logs_zip.entries[i].name = log_file].lines

\* A logs_zip is [valid, entries]: valid is FALSE for bytes zipfile rejects
\* (the exception is swallowed and None returned); entries are [name, lines]
\* in archive order, lines being the entry's decoded text split into lines.
extract_failing_step_logs(logs_zip, failing_job_name, failing_step_name, max_lines, context_lines) ==
    IF ~logs_zip.valid THEN None
    ELSE LET log_file == locate_log_file(namelist(logs_zip), failing_job_name, failing_step_name)
         IN  IF IsNone(log_file) THEN None
             ELSE Some(window_excerpt(read_lines(logs_zip, Val(log_file)), max_lines, context_lines))

\* utils.py line 55: max_lines=50, context_lines=5
DEFAULT_MAX_LINES == 50

DEFAULT_CONTEXT_LINES == 5

---------------------------------------------------------------------------
(* utils.parse_github_run_url *)

\* the first index i >= from with s[i] in chars, Len(s) + 1 when there is none
IndexOfAny(s, chars, from) ==
    IF \E i \in from..Len(s) : s[i] \in chars
    THEN CHOOSE i \in from..Len(s) : s[i] \in chars /\ \A j \in from..(i - 1) : s[j] \notin chars
    ELSE Len(s) + 1

IsAlpha(c) == \E i \in 1..26 : UpperLetters[i] = c \/ LowerLetters[i] = c

\* urllib.parse.scheme_chars
IsSchemeChar(c) == IsAlpha(c) \/ IsDigit(c) \/ c \in {"+", "-", "."}

\* urlsplit: the url after its scheme, when a valid scheme precedes the
\* first ':'
after_scheme(url) ==
    LET i == IndexOfAny(url, {":"}, 1)
    IN  IF /\ i <= Len(url)
           /\ i > 1
           /\ IsAlpha(url[1])
           /\ \A k \in 1..(i - 1) : IsSchemeChar(url[k])
        THEN SubSeq(url, i + 1, Len(url))
        ELSE url

\* urlsplit: a network location is present iff '//' follows the scheme
has_netloc(rest) == Len(rest) >= 2 /\ rest[1] = "/" /\ rest[2] = "/"

\* urlparse(url).netloc: the text between '//' and the next '/', '?' or '#',
\* userinfo and port included, letter case kept
netloc_of(url) ==
    LET rest == after_scheme(url)
    IN  IF has_netloc(rest)
        THEN SubSeq(rest, 3, IndexOfAny(rest, {"/", "?", "#"}, 3) - 1)
        ELSE <<>>

\* urlparse(url).path: what follows the network location, up to the query
\* or the fragment
path_of(url) ==
    LET rest  == after_scheme(url)
        start == IF has_netloc(rest) THEN IndexOfAny(rest, {"/", "?", "#"}, 3) ELSE 1
    IN  SubSeq(rest, start, IndexOfAny(rest, {"?", "#"}, start) - 1)

GITHUB_COM == <<"g","i","t","h","u","b",".","c","o","m">>

WWW_GITHUB_COM == <<"w","w","w",".","g","i","t","h","u","b",".","c","o","m">>

S_ACTIONS == <<"a","c","t","i","o","n","s">>

S_RUNS == <<"r","u","n","s">>

\* parts = [p for p in u.path.split("/") if p]
path_parts(url) ==
    LET NonEmpty(p) == p # <<>>
    IN  SelectSeq(split(path_of(url), "/"), NonEmpty)

\* int(s) accepts an optional sign followed by decimal digits
is_int_literal(s) ==
    LET body == IF s # <<>> /\ s[1] \in {"+", "-"} THEN Tail(s) ELSE s
    IN  body # <<>> /\ \A i \in 1..Len(body) : IsDigit(body[i])

DigitValue(c) == (CHOOSE i \in 1..10 : Digits[i] = c) - 1

RECURSIVE digits_value(_)
digits_value(s) ==
    IF s = <<>> THEN 0 ELSE 10 * digits_value(SubSeq(s, 1, Len(s) - 1)) + DigitValue(s[Len(s)])

\* int(s) of a literal
int_of(s) ==
    IF s[1] = "-" THEN 0 - digits_value(Tail(s))
    ELSE IF s[1] = "+" THEN digits_value(Tail(s))
    ELSE digits_value(s)

VALUE_ERROR == "ValueError"

\* a call's outcome: the exception raised, or the value returned
Raise(exc) == [raised |-> Some(exc), value |-> None]

Return(v) == [raised |-> None, value |-> Some(v)]

ParsedRunURL(owner, repo, run_id) == [owner |-> owner, repo |-> repo, run_id |-> run_id]

\* lines 14-23
parse_github_run_url(url) ==
    LET parts == path_parts(url)
    IN  IF netloc_of(url) \notin {GITHUB_COM, WWW_GITHUB_COM} THEN Raise(VALUE_ERROR)
        ELSE IF Len(parts) < 5 \/ parts[3] # S_ACTIONS \/ parts[4] # S_RUNS
        THEN Raise(VALUE_ERROR)
        ELSE IF ~is_int_literal(parts[5]) THEN Raise(VALUE_ERROR)
        ELSE Return(ParsedRunURL(parts[1], parts[2], int_of(parts[5])))

---------------------------------------------------------------------------
(* analysis.pick_failing_jobs and the pure parts of analysis.analyze *)

FAILING_CONCLUSIONS == {FAILURE, FAILED, CANCELLED}

\* (conclusion or "").lower() in {"failure", "failed", "cancelled"}
is_failing_conclusion(conclusion) == lower(OrEmpty(conclusion)) \in FAILING_CONCLUSIONS

pick_failing_jobs_first(js) ==
    LET Failing(i) == is_failing_conclusion(js[i].conclusion)
        all == SelectSeq([i \in 1..Len(js) |-> i], Failing)
    IN  FirstN(all, 1)

\* the failing jobs, as references (indices) into the job list, in list order
pick_failing_jobs(js) ==
    LET Failing(i) == is_failing_conclusion(js[i].conclusion)
    IN  SelectSeq([i \in 1..Len(js) |-> i], Failing)

\* lines 68-70: durations
durations_of(ss) ==
    [i \in 1..Len(ss) |-> duration_ms(ss[i].started_at, ss[i].updated_at)]

\* the last element q[i] (an Optional) whose flag hit[i] is set
LastSuch(q, hit) ==
    IF \E i \in 1..Len(q) : hit[i]
    THEN Some(q[CHOOSE i \in 1..Len(q) : hit[i] /\ \A j \in (i + 1)..Len(q) : ~hit[j]])
    ELSE None

last_success_of_latest(ss, cur_start) ==
    LastSuch(ss, [i \in 1..Len(ss) |-> ss[i].started_at < cur_start])

\* lines 67-72: last_success, the first sampled run that started before cur_start
last_success_of(ss, cur_start) ==
    FirstSuch(ss, [i \in 1..Len(ss) |-> ss[i].started_at < cur_start])

baseline_of_truthy(ds) == IF ds # <<>> /\ median_ms(ds) # 0 THEN Some(median_ms(ds)) ELSE None

\* line 73: median_ms(durations) if durations else None
baseline_of(ds) == IF ds # <<>> THEN Some(median_ms(ds)) ELSE None

\* line 82: is_failed
is_failed(r) == is_failing_conclusion(r.conclusion)

\* lines 93-99: failing_step_name
failing_step_name_of(job) ==
    LET FailingStep(step) == is_failing_conclusion(Get(step, "conclusion", None))
        failing_step == FirstSuch(job.steps, [i \in 1..Len(job.steps) |-> FailingStep(job.steps[i])])
    IN  IF IsNone(failing_step) THEN None
        ELSE IF "name" \in DOMAIN Val(failing_step) THEN Some(Val(failing_step).name)
        ELSE None

\* lines 90-100: the job list after the extraction loop
extract_all(r, js, failing, logs_zip) ==
    IF is_failed(r) /\ failing # <<>>
    THEN [i \in 1..Len(js) |->
            IF i \in Range(failing)
            THEN [js[i] EXCEPT !.log_lines =
                     extract_failing_step_logs(logs_zip, js[i].name, failing_step_name_of(js[i]),
                                               DEFAULT_MAX_LINES, DEFAULT_CONTEXT_LINES)]
            ELSE js[i]]
    ELSE js

REASON_AFTER_FAILURE == "Cancelled after a failure in another job"

REASON_TIMEOUT == "Timeout reached"

REASON_OPERATION_CANCELED == "Operation canceled (manual, concurrency, or timeout)"

TIMEOUT == <<"t","i","m","e","o","u","t">>

TIMED_OUT == <<"t","i","m","e","d"," ","o","u","t">>

OPERATION_CANCELED == <<"t","h","e"," ","o","p","e","r","a","t","i","o","n"," ","w","a","s"," ","c","a","n","c","e","l","e","d">>

OPERATION_CANCELLED == <<"t","h","e"," ","o","p","e","r","a","t","i","o","n"," ","w","a","s"," ","c","a","n","c","e","l","l","e","d">>

RECURSIVE join(_, _)
\* sep.join(parts)
join(parts, sep) ==
    IF parts = <<>> THEN <<>>
    ELSE IF Len(parts) = 1 THEN parts[1]
    ELSE parts[1] \o sep \o join(Tail(parts), sep)

RECURSIVE text_snippets_of(_, _)
\* lines 112-115: the log lines of the failing jobs that have any
text_snippets_of(js, failing) ==
    IF failing = <<>> THEN <<>>
    ELSE LET log_lines == js[Head(failing)].log_lines
         IN  (IF ~IsNone(log_lines) /\ Val(log_lines) # <<>> THEN Val(log_lines) ELSE <<>>)
             \o text_snippets_of(js, Tail(failing))

\* lines 116-122: the reason read from the log text
reason_from_logs(js, failing) ==
    LET joined == lower(join(text_snippets_of(js, failing), <<"\n">>))
    IN  IF contains(TIMEOUT, joined) \/ contains(TIMED_OUT, joined)
        THEN Some(REASON_TIMEOUT)
        ELSE IF contains(OPERATION_CANCELED, joined) \/ contains(OPERATION_CANCELLED, joined)
        THEN Some(REASON_OPERATION_CANCELED)
        ELSE None

infer_cancellation_logs_first(r, js, failing) ==
    IF lower(OrEmpty(r.conclusion)) = CANCELLED
    THEN IF ~IsNone(reason_from_logs(js, failing)) THEN reason_from_logs(js, failing)
         ELSE IF /\ \E i \in 1..Len(js) : lower(OrEmpty(js[i].conclusion)) \in {FAILURE, FAILED}
                 /\ \E i \in 1..Len(js) : lower(OrEmpty(js[i].conclusion)) = CANCELLED
         THEN Some(REASON_AFTER_FAILURE)
         ELSE None
    ELSE None

infer_cancellation_any_failed(r, js, failing) ==
    IF is_failed(r)
    THEN LET any_failure == \E i \in 1..Len(js) :
                                lower(OrEmpty(js[i].conclusion)) \in {FAILURE, FAILED}
             any_cancel  == \E i \in 1..Len(js) : lower(OrEmpty(js[i].conclusion)) = CANCELLED
         IN  IF any_failure /\ any_cancel THEN Some(REASON_AFTER_FAILURE)
             ELSE reason_from_logs(js, failing)
    ELSE None

\* lines 102-122: cancellation_reason after the inference (js holds the
\* log_lines the extraction loop has just written)
infer_cancellation(r, js, failing) ==
    IF lower(OrEmpty(r.conclusion)) = CANCELLED
    THEN LET any_failure == \E i \in 1..Len(js) :
                                lower(OrEmpty(js[i].conclusion)) \in {FAILURE, FAILED}
             any_cancel  == \E i \in 1..Len(js) : lower(OrEmpty(js[i].conclusion)) = CANCELLED
         IN  IF any_failure /\ any_cancel THEN Some(REASON_AFTER_FAILURE)
             ELSE reason_from_logs(js, failing)
    ELSE None

\* save_logs_dir / f"run-{run.id}-logs.zip"
logs_file_of(dir, r) == <<Val(dir), r.id>>

---------------------------------------------------------------------------
(* analyze not running: the state of the pure-function specifications *)

AnalyzeIdle ==
    /\ pc = "idle"
    /\ run_url = <<>>
    /\ requests = <<>>
    /\ want_logs = FALSE
    /\ save_logs_dir = None
    /\ run = None
    /\ jobs = <<>>
    /\ wf_name = None
    /\ failing_jobs = <<>>
    /\ successes = <<>>
    /\ last_success = None
    /\ durations = <<>>
    /\ baseline_p50 = None
    /\ cmp = None
    /\ blob = None
    /\ logs_path = None
    /\ cancellation_reason = None
    /\ calls = <<>>
    /\ warnings = <<>>
    /\ faults = <<>>
    /\ raised = None
    /\ report = None

---------------------------------------------------------------------------
(* Specification of median_ms over bounded inputs *)

MaxValues == 4

MaxMs == 3

RECURSIVE SeqsUpTo(_, _)
\* all sequences over S of length at most n
SeqsUpTo(S, n) ==
    IF n = 0 THEN {<<>>}
    ELSE LET shorter == SeqsUpTo(S, n - 1)
         IN  shorter \cup {Append(q, x) : q \in {r \in shorter : Len(r) = n - 1}, x \in S}

InitMedian ==
    /\ fn = "idle"
    /\ args \in {[values |-> v] : v \in SeqsUpTo(0..MaxMs, MaxValues)}
    /\ ret = None
    /\ after = None
    /\ AnalyzeIdle

CallMedian ==
    /\ fn = "idle"
    /\ fn' = "returned"
    /\ ret' = Some(median_ms(args.values))
    /\ after' = Some(median_ms_values_after(args.values))
    /\ UNCHANGED <<args, avars>>

NextMedian == CallMedian

SpecMedian == InitMedian /\ [][NextMedian]_vars

\* the k-th smallest element (k = 1 is the minimum), counted with multiplicity
KthSmallest(v, k) ==
    CHOOSE x \in Range(v) :
        /\ Cardinality({i \in DOMAIN v : v[i] < x}) < k
        /\ k <= Cardinality({i \in DOMAIN v : v[i] <= x})

Permuted(v, p) == [i \in 1..Len(v) |-> v[p[i]]]

\* C9: median_ms returns 0 for the empty sequence, the middle element of the
\* ascending order for odd length, floor((a+b)/2) of the two middle elements
\* for even length; every permutation of the input gives the same result and
\* the input list is left unmodified.
C9_MedianOfSorted ==
    fn = "returned" =>
        LET v == args.values
            n == Len(v)
        IN  /\ (n = 0 => Val(ret) = 0)
            /\ (n % 2 = 1 => Val(ret) = KthSmallest(v, (n + 1) \div 2))
            /\ (n > 0 /\ n % 2 = 0 =>
                    Val(ret) = (KthSmallest(v, n \div 2) + KthSmallest(v, (n \div 2) + 1)) \div 2)
            /\ \A p \in Permutations(1..n) : median_ms(Permuted(v, p)) = Val(ret)
            /\ Val(after) = v

C9_Witness ==
    /\ fn = "returned"
    /\ args.values = <<3, 0, 2, 1>>
    /\ ret = Some(1)

---------------------------------------------------------------------------
(* Specification of human_ms over bounded inputs *)

MsSpread == 12

\* durations around the tier boundaries and around the documented examples
MsInputs ==
    {b + d : b \in {0, 15000, 60000, 125000, 3600000, 3900000, 7200000},
             d \in (0 - MsSpread)..MsSpread} \cap Nat

InitHuman ==
    /\ fn = "idle"
    /\ args \in {[ms |-> m] : m \in {None} \cup {Some(x) : x \in MsInputs}}
    /\ ret = None
    /\ after = None
    /\ AnalyzeIdle

CallHuman ==
    /\ fn = "idle"
    /\ fn' = "returned"
    /\ ret' = Some(human_ms(args.ms))
    /\ after' = Some(args)
    /\ UNCHANGED <<args, avars>>

NextHuman == CallHuman

SpecHuman == InitHuman /\ [][NextHuman]_vars

\* the unit tier an output is written in: 1 seconds, 2 minutes, 3 hours
Tier(out) ==
    IF contains(<<"h">>, out) THEN 3
    ELSE IF contains(<<"m">>, out) THEN 2
    ELSE IF endswith(out, <<"s">>) THEN 1
    ELSE 0

TwoDigits(n) == <<Digits[(n \div 10) + 1], Digits[(n % 10) + 1]>>

\* C10: human_ms writes '<n>s' (n = ms div 1000) exactly when ms < 60000,
\* '<m>m<ss>s' exactly when 60000 <= ms < 3600000 and '<h>h<mm>m' exactly when
\* ms >= 3600000; the tier never decreases as ms grows; None gives 'n/a'.
C10_HumanTiers ==
    fn = "returned" =>
        IF IsNone(args.ms) THEN Val(ret) = <<"n", "/", "a">>
        ELSE LET ms  == Val(args.ms)
                 out == Val(ret)
             IN  /\ (Tier(out) = 1) <=> (ms < 60000)
                 /\ (Tier(out) = 2) <=> (60000 <= ms /\ ms < 3600000)
                 /\ (Tier(out) = 3) <=> (ms >= 3600000)
                 /\ ms < 60000 => out = str(ms \div 1000) \o <<"s">>
                 /\ (60000 <= ms /\ ms < 3600000) =>
                        out = str(ms \div 60000) \o <<"m">>
                              \o TwoDigits((ms \div 1000) % 60) \o <<"s">>
                 /\ ms >= 3600000 =>
                        out = str(ms \div 3600000) \o <<"h">>
                              \o TwoDigits((ms \div 60000) % 60) \o <<"m">>
                 /\ \A x \in MsInputs :
                        x >= ms => Tier(human_ms(Some(x))) >= Tier(out)
                 /\ (ms = 15000 => out = <<"1", "5", "s">>)
                 /\ (ms = 125000 => out = <<"2", "m", "0", "5", "s">>)
                 /\ (ms = 3900000 => out = <<"1", "h", "0", "5", "m">>)

C10_Witness ==
    /\ fn = "returned"
    /\ args.ms = Some(3600000)
    /\ ret = Some(<<"1", "h", "0", "0", "m">>)

---------------------------------------------------------------------------
(* Specification of gen_suspects over bounded inputs *)

MaxFiles == 3

F_PACKAGE_LOCK == <<"p","a","c","k","a","g","e","-","l","o","c","k",".","j","s","o","n">>

F_WORKFLOW_CI == <<".","g","i","t","h","u","b","/","w","o","r","k","f","l","o","w","s","/","c","i",".","y","m","l">>

F_DOCKERFILE == <<"D","o","c","k","e","r","f","i","l","e">>

F_MAIN_PY == <<"s","r","c","/","m","a","i","n",".","p","y">>

\* changed-file descriptors: four with a filename, one without the key
FileDicts == {<<>>} \cup {[filename |-> n] :
                  n \in {F_PACKAGE_LOCK, F_WORKFLOW_CI, F_DOCKERFILE, F_MAIN_PY}}

CompareMetas == {CompareMetaOf(fs) : fs \in SeqsUpTo(FileDicts, MaxFiles)}

InitSuspects ==
    /\ fn = "idle"
    /\ args \in {[run |-> RunMetaOf("7", Some(FAILURE), e, 100, 100 + d), jobs |-> <<>>,
                  cmp |-> c, baseline_p50_ms |-> b] :
                    e \in {"push", "workflow_dispatch", "repository_dispatch"},
                    d \in {60, 200},
                    c \in {None} \cup {Some(m) : m \in CompareMetas},
                    b \in {None, Some(0), Some(40000), Some(100000)}}
    /\ ret = None
    /\ after = None
    /\ AnalyzeIdle

CallSuspects ==
    /\ fn = "idle"
    /\ fn' = "returned"
    /\ ret' = Some(gen_suspects(args.run, args.jobs, args.cmp, args.baseline_p50_ms))
    /\ after' = Some(args)
    /\ UNCHANGED <<args, avars>>

NextSuspects == CallSuspects

SpecSuspects == InitSuspects /\ [][NextSuspects]_vars

SuspectOfRule == <<SUSPECT_DURATION, SUSPECT_LOCKFILE, SUSPECT_WORKFLOW,
                   SUSPECT_DOCKERFILE, SUSPECT_DISPATCH>>

RuleFires(i, a) ==
    CASE i = 1 -> DurationSpikeRule(a.run, a.baseline_p50_ms)
      [] i = 2 -> LockfileRule(a.cmp)
      [] i = 3 -> WorkflowRule(a.cmp)
      [] i = 4 -> DockerfileRule(a.cmp)
      [] i = 5 -> DispatchRule(a.run)

\* the numbers of the rules that fire on a, ascending
FiredRules(a) == LET Fires(i) == RuleFires(i, a) IN SelectSeq(<<1, 2, 3, 4, 5>>, Fires)

\* C1: gen_suspects returns at most 3 suspects, exactly the first three (or
\* fewer) of the rules that fired, in rule order 1..5; a diff touching
\* package-lock.json and .github/workflows/ci.yml with no baseline and a
\* non-dispatch event gives the lockfile suspect then the workflow suspect.
C1_SuspectsCappedInRuleOrder ==
    fn = "returned" =>
        LET out   == Val(ret)
            fired == FiredRules(args)
        IN  /\ Len(out) <= 3
            /\ Len(out) = Min(3, Len(fired))
            /\ \A k \in 1..Len(out) : out[k] = SuspectOfRule[fired[k]]
            /\ ( /\ args.cmp = Some(CompareMetaOf(<<[filename |-> F_PACKAGE_LOCK],
                                                   [filename |-> F_WORKFLOW_CI]>>))
                 /\ args.baseline_p50_ms = None
                 /\ args.run.event = "push"
                 => out = <<SUSPECT_LOCKFILE, SUSPECT_WORKFLOW>> )

C1_Witness ==
    /\ fn = "returned"
    /\ Len(FiredRules(args)) = 5
    /\ ret = Some(<<SUSPECT_DURATION, SUSPECT_LOCKFILE, SUSPECT_WORKFLOW>>)

\* C16: the duration-spike rule fires exactly when a baseline is present and
\* the run's duration (updated_at minus started_at, in ms) is strictly
\* greater than 1.5 times the baseline, for every present baseline value, 0
\* included; it never fires when the baseline is absent or when the duration
\* is at most 1.5 times the baseline.
C16_AsStated ==
    fn = "returned" =>
        LET b     == args.baseline_p50_ms
            dur   == (args.run.updated_at - args.run.started_at) * 1000
            fired == \E k \in 1..Len(Val(ret)) : Val(ret)[k] = SUSPECT_DURATION
        IN  fired <=> (~IsNone(b) /\ 2 * dur > 3 * Val(b))

---------------------------------------------------------------------------
(* Specification of extract_failing_step_logs over bounded log entries *)

MaxLogLines == 5

MaxMaxLines == 3

MaxContext == 2

L_OK == <<"o","k">>

L_EXIT == <<"E","x","i","t"," ","C","o","d","e"," ","1">>

L_TIMED_OUT == <<"T","i","m","e","d"," ","o","u","t">>

N_BUILD == <<"b","u","i","l","d">>

N_TEST == <<"t","e","s","t">>

E_1_TEST == <<"1","_","t","e","s","t",".","t","x","t">>

\* one error line with 10 benign lines on each side
ExampleLog == [i \in 1..21 |-> IF i = 11 THEN L_EXIT ELSE L_OK]

LogsOf == SeqsUpTo({L_OK, L_EXIT, L_TIMED_OUT}, MaxLogLines) \cup {ExampleLog}

InitExtract ==
    /\ fn = "idle"
    /\ args \in {[logs_zip |-> [valid |-> TRUE, entries |-> <<[name |-> E_1_TEST, lines |-> ls]>>],
                  failing_job_name |-> N_BUILD,
                  failing_step_name |-> Some(N_TEST),
                  max_lines |-> m, context_lines |-> c] :
                    ls \in LogsOf,
                    m \in (1..MaxMaxLines) \cup {DEFAULT_MAX_LINES},
                    c \in (0..MaxContext) \cup {DEFAULT_CONTEXT_LINES}}
    /\ ret = None
    /\ after = None
    /\ AnalyzeIdle

CallExtract ==
    /\ fn = "idle"
    /\ fn' = "returned"
    /\ ret' = Some(extract_failing_step_logs(args.logs_zip, args.failing_job_name,
                       args.failing_step_name, args.max_lines, args.context_lines))
    /\ after' = Some(args)
    /\ UNCHANGED <<args, avars>>

NextExtract == CallExtract

SpecExtract == InitExtract /\ [][NextExtract]_vars

\* the r-th smallest element of a set of integers
NthOf(S, r) == CHOOSE x \in S : Cardinality({y \in S : y < x}) = r - 1

\* 0-based indices of the lines that match an error marker
MarkerIndices(L) == {i \in 0..(Len(L) - 1) : is_error_line(L[i + 1])}

\* union of the windows [i - c, i + c] clipped to the log
WindowUnion(L, c) ==
    LET M == MarkerIndices(L)
    IN  {j \in 0..(Len(L) - 1) : \E i \in M : i - c <= j /\ j <= i + c}

\* C8: with at least one marker line the excerpt is the lines at the union of
\* the clipped windows, each index once, ascending, cut to its last max_lines;
\* with none it is the last max_lines lines; one error line with 10 benign
\* lines on each side and context 5 gives exactly 11 lines.
C8_ExcerptIsWindowUnionTail ==
    fn = "returned" =>
        LET L   == args.logs_zip.entries[1].lines
            n   == Len(L)
            I   == WindowUnion(L, args.context_lines)
            out == Val(Val(ret))
        IN  /\ ~IsNone(Val(ret))
            /\ IF MarkerIndices(L) # {}
               THEN /\ Len(out) = Min(Cardinality(I), args.max_lines)
                    /\ \A k \in 1..Len(out) :
                           out[k] = L[NthOf(I, Cardinality(I) - Len(out) + k) + 1]
               ELSE /\ Len(out) = Min(n, args.max_lines)
                    /\ \A k \in 1..Len(out) : out[k] = L[n - Len(out) + k]
            /\ ( L = ExampleLog /\ args.context_lines = 5 /\ args.max_lines >= 11
                 => out = [k \in 1..11 |-> IF k = 6 THEN L_EXIT ELSE L_OK] )

C8_Witness ==
    /\ fn = "returned"
    /\ args.logs_zip.entries[1].lines = <<L_EXIT, L_OK, L_TIMED_OUT, L_OK, L_EXIT>>
    /\ args.context_lines = 1
    /\ args.max_lines = 3
    /\ ret = Some(Some(<<L_OK, L_OK, L_EXIT>>))

---------------------------------------------------------------------------
(* Specification of parse_github_run_url over bounded run references *)

MaxSegments == 5

HTTPS == <<"h","t","t","p","s",":","/","/">>

EXAMPLE_COM == <<"e","x","a","m","p","l","e",".","c","o","m">>

GITHUB_COM_443 == <<"g","i","t","h","u","b",".","c","o","m",":","4","4","3">>

GITHUB_COM_MIXED == <<"G","i","t","H","u","b",".","c","o","m">>

S_OWNER == <<"o","w","n","e","r">>

S_REPO == <<"r","e","p","o">>

S_WORKFLOWS == <<"w","o","r","k","f","l","o","w","s">>

S_12 == <<"1","2">>

S_123456789 == <<"1","2","3","4","5","6","7","8","9">>

\* '/' before every segment
PathOf(segs) == IF segs = <<>> THEN <<>> ELSE <<"/">> \o join(segs, <<"/">>)

\* the references of tests/test_url_parse.py
TestUrls ==
    {HTTPS \o GITHUB_COM \o PathOf(<<S_OWNER, S_REPO, S_ACTIONS, S_RUNS, S_123456789>>),
     HTTPS \o EXAMPLE_COM \o PathOf(<<S_OWNER, S_REPO, S_ACTIONS, S_RUNS, <<"1">>>>),
     HTTPS \o GITHUB_COM \o PathOf(<<S_OWNER, S_REPO, S_ACTIONS, S_WORKFLOWS, <<"1">>>>),
     HTTPS \o GITHUB_COM \o PathOf(<<S_OWNER, S_REPO, S_RUNS, <<"1">>>>)}

\* references with and without a scheme, on five network locations, with
\* every path of up to MaxSegments segments, bare or followed by a slash or
\* a query
RunUrls ==
    TestUrls \cup
    {scheme \o netloc \o PathOf(segs) \o tail :
        scheme \in {HTTPS, <<>>},
        netloc \in {GITHUB_COM, WWW_GITHUB_COM, EXAMPLE_COM, GITHUB_COM_443, GITHUB_COM_MIXED},
        segs \in SeqsUpTo({S_OWNER, S_ACTIONS, S_RUNS, S_12}, MaxSegments),
        tail \in {<<>>, <<"/">>, <<"?","a">>}}

InitParse ==
    /\ fn = "idle"
    /\ args \in {[url |-> u] : u \in RunUrls}
    /\ ret = None
    /\ after = None
    /\ AnalyzeIdle

CallParse ==
    /\ fn = "idle"
    /\ fn' = "returned"
    /\ ret' = Some(parse_github_run_url(args.url))
    /\ after' = Some(args)
    /\ UNCHANGED <<args, avars>>

NextParse == CallParse

SpecParse == InitParse /\ [][NextParse]_vars

\* the host a reference names: the network location without userinfo and
\* port, letter case folded (RFC 3986, section 3.2.2)
HostOf(url) ==
    LET n    == netloc_of(url)
        at   == IF \E i \in 1..Len(n) : n[i] = "@"
                THEN CHOOSE i \in 1..Len(n) : n[i] = "@" /\ \A j \in (i + 1)..Len(n) : n[j] # "@"
                ELSE 0
        rest == SubSeq(n, at + 1, Len(n))
    IN  lower(SubSeq(rest, 1, IndexOfAny(rest, {":"}, 1) - 1))

\* the non-empty segments of the path, read off the reference directly
SegmentsOf(url) ==
    LET NonEmpty(p) == p # <<>>
    IN  SelectSeq(split(path_of(url), "/"), NonEmpty)

AllDigits(s) == s # <<>> /\ \A i \in 1..Len(s) : s[i] \in Range(Digits)

\* C11: parse_github_run_url returns (owner, repo, run_id) from path segments
\* 1, 2 and 5 when the host is github.com or www.github.com and the path is
\* /owner/repo/actions/runs/<integer id>; it raises ValueError, returning
\* nothing, for another host, fewer than five segments, a third segment
\* other than 'actions', a fourth other than 'runs', or a non-integer id.
C11_AsStated ==
    fn = "returned" =>
        LET url  == args.url
            segs == SegmentsOf(url)
            host_ok == HostOf(url) \in {GITHUB_COM, WWW_GITHUB_COM}
            malformed == \/ ~host_ok
                         \/ Len(segs) < 5
                         \/ segs[3] # S_ACTIONS
                         \/ segs[4] # S_RUNS
                         \/ ~AllDigits(segs[5])
        IN  /\ (host_ok /\ Len(segs) = 5 /\ ~malformed) =>
                   Val(ret) = Return(ParsedRunURL(segs[1], segs[2], digits_value(segs[5])))
            /\ malformed => Val(ret) = Raise(VALUE_ERROR)

---------------------------------------------------------------------------
(* analysis.analyze: one action per data-source call and per stage between *)

MaxJobs == 2

MaxSuccesses == 2

CANCELLED_CAPITALISED == <<"C","a","n","c","e","l","l","e","d">>

FAILURE_CAPITALISED == <<"F","a","i","l","u","r","e">>

N_SETUP == <<"s","e","t","u","p">>

N_DEPLOY == <<"d","e","p","l","o","y">>

N_PUBLISH == <<"p","u","b","l","i","s","h">>

N_LINT == <<"l","i","n","t">>

N_DOCS == <<"d","o","c","s">>

E_BUILD_TEST == <<"1","_","b","u","i","l","d","/","2","_","t","e","s","t",".","t","x","t">>

E_DEPLOY_PUBLISH == <<"2","_","d","e","p","l","o","y","/","1","_","p","u","b","l","i","s","h",".","t","x","t">>

E_3_LINT == <<"3","_","l","i","n","t",".","t","x","t">>

L_CANCELED == <<"#","#","[","e","r","r","o","r","]","T","h","e"," ","O","p","e","r","a","t","i","o","n"," ","w","a","s"," ","c","a","n","c","e","l","e","d",".">>

\* what get_run may return: a run of every conclusion
Runs ==
    {RunMetaOf("7", c, "push", 100, 250) :
        c \in {None, Some(SUCCESS), Some(FAILURE), Some(CANCELLED), Some(CANCELLED_CAPITALISED)}}

StepOf(name, conclusion) == [name |-> name, conclusion |-> conclusion]

JobSet ==
    {JobMetaOf(N_BUILD, Some(FAILURE_CAPITALISED),
               <<StepOf(N_SETUP, Some(SUCCESS)), StepOf(N_TEST, Some(FAILURE))>>),
     JobMetaOf(N_DEPLOY, Some(CANCELLED), <<StepOf(N_PUBLISH, Some(CANCELLED))>>),
     JobMetaOf(N_LINT, Some(FAILED), <<>>),
     JobMetaOf(N_DOCS, Some(SUCCESS), <<StepOf(N_TEST, Some(SUCCESS))>>),
     JobMetaOf(N_TEST, Some(SKIPPED), <<>>),
     JobMetaOf(N_SETUP, None, <<StepOf(N_SETUP, None)>>)}

\* the members of qs in which no element occurs twice
Distinct(qs) == {q \in qs : \A i, j \in 1..Len(q) : q[i] = q[j] => i = j}

\* what list_run_jobs may return: the jobs of a run are distinct
JobLists == Distinct(SeqsUpTo(JobSet, MaxJobs))

\* sampled successful runs: durations 0, 60000 and 100000 ms; the first two
\* started before the current run, the last one at the same second
SuccessRuns ==
    {RunMetaOf("1", Some(SUCCESS), "push", 50, 50),
     RunMetaOf("2", Some(SUCCESS), "push", 60, 120),
     RunMetaOf("3", Some(SUCCESS), "push", 100, 200)}

\* what list_successful_runs may return
SuccessLists == Distinct(SeqsUpTo(SuccessRuns, MaxSuccesses))

\* what compare_since_last_success may return
\* (GitHubProvider: None when there is no last success)
CompareResults(last) ==
    IF IsNone(last) THEN {None}
    ELSE {Some(CompareMetaOf(<<[filename |-> F_PACKAGE_LOCK], [filename |-> F_WORKFLOW_CI]>>))}

EntryOf(name, lines) == [name |-> name, lines |-> lines]

\* what download_logs_zip may return: bytes that are no zip archive, and
\* archives whose deploy log holds both phrases, one phrase, or neither
Archives ==
    {[valid |-> FALSE, entries |-> <<>>],
     [valid |-> TRUE, entries |->
        <<EntryOf(E_BUILD_TEST, <<L_OK, L_EXIT>>),
          EntryOf(E_DEPLOY_PUBLISH, <<L_CANCELED, L_TIMED_OUT>>)>>],
     [valid |-> TRUE, entries |->
        <<EntryOf(E_BUILD_TEST, <<L_OK, L_EXIT>>),
          EntryOf(E_DEPLOY_PUBLISH, <<L_OK, L_CANCELED>>)>>],
     [valid |-> TRUE, entries |->
        <<EntryOf(E_BUILD_TEST, <<L_OK, L_EXIT, L_OK>>),
          EntryOf(E_DEPLOY_PUBLISH, <<L_OK>>),
          EntryOf(E_3_LINT, <<L_OK>>)>>]}

\* the data-source calls of steps 1-4, whose errors propagate
FatalOps == {"get_run", "list_run_jobs", "get_workflow_name",
             "list_successful_runs", "compare_since_last_success"}

\* the GitHubClient request each provider operation sends
RequestOf ==
    [get_run |-> "get_run", list_run_jobs |-> "list_jobs",
     get_workflow_name |-> "get_workflow", list_successful_runs |-> "list_success",
     compare_since_last_success |-> "compare", download_logs_zip |-> "logs_zip"]

U_RUN_7 == HTTPS \o GITHUB_COM \o PathOf(<<S_OWNER, S_REPO, S_ACTIONS, S_RUNS, <<"7">>>>)

U_WRONG_HOST == HTTPS \o EXAMPLE_COM \o PathOf(<<S_OWNER, S_REPO, S_ACTIONS, S_RUNS, <<"7">>>>)

U_NO_ACTIONS == HTTPS \o GITHUB_COM \o PathOf(<<S_OWNER, S_REPO, S_RUNS, <<"7">>>>)

U_SHORT == HTTPS \o GITHUB_COM \o PathOf(<<S_OWNER, S_REPO>>)

\* the run references analyze is called with: one well-formed, one with a
\* wrong host, two with missing path segments
AnalyzeUrls == {U_RUN_7, U_WRONG_HOST, U_NO_ACTIONS, U_SHORT}

InitAnalyze ==
    /\ fn = "unused"
    /\ args = None
    /\ ret = None
    /\ after = None
    /\ pc = "get_run"
    /\ run_url \in AnalyzeUrls
    /\ want_logs \in BOOLEAN
    /\ save_logs_dir \in {None, Some("artifacts")}
    /\ run = None
    /\ jobs = <<>>
    /\ wf_name = None
    /\ failing_jobs = <<>>
    /\ successes = <<>>
    /\ last_success = None
    /\ durations = <<>>
    /\ baseline_p50 = None
    /\ cmp = None
    /\ blob = None
    /\ logs_path = None
    /\ cancellation_reason = None
    /\ calls = <<>>
    /\ requests = <<>>
    /\ warnings = <<>>
    /\ faults = <<>>
    /\ raised = None
    /\ report = None

GetRun_unparsed ==
    /\ pc = "get_run"
    /\ calls' = Append(calls, "get_run")
    /\ requests' = Append(requests, "get_run")
    /\ \E r \in Runs : run' = Some(r)
    /\ pc' = "list_run_jobs"
    /\ UNCHANGED <<pvars, faults, run_url, want_logs, save_logs_dir, jobs, wf_name,
                   failing_jobs, successes, last_success, durations,
                   baseline_p50, cmp, blob, logs_path, cancellation_reason,
                   warnings, raised, report>>

\* line 58, github_provider.py lines 16-23: the reference parses, the run
\* is requested
GetRun ==
    /\ pc = "get_run"
    /\ IsNone(parse_github_run_url(run_url).raised)
    /\ calls' = Append(calls, "get_run")
    /\ requests' = Append(requests, "get_run")
    /\ \E r \in Runs : run' = Some(r)
    /\ pc' = "list_run_jobs"
    /\ UNCHANGED <<pvars, faults, run_url, want_logs, save_logs_dir, jobs, wf_name,
                   failing_jobs, successes, last_success, durations,
                   baseline_p50, cmp, blob, logs_path, cancellation_reason,
                   warnings, raised, report>>

\* line 58, github_provider.py line 16: parse_github_run_url raises before
\* the provider sends anything, and nothing in analyze catches it
GetRunMalformed ==
    /\ pc = "get_run"
    /\ ~IsNone(parse_github_run_url(run_url).raised)
    /\ calls' = Append(calls, "get_run")
    /\ raised' = parse_github_run_url(run_url).raised
    /\ pc' = "raised"
    /\ UNCHANGED <<pvars, faults, run_url, requests, want_logs, save_logs_dir, run, jobs,
                   wf_name, failing_jobs, successes, last_success, durations,
                   baseline_p50, cmp, blob, logs_path, cancellation_reason,
                   warnings, report>>

\* line 59
ListRunJobs ==
    /\ pc = "list_run_jobs"
    /\ calls' = Append(calls, "list_run_jobs")
    /\ requests' = Append(requests, "list_jobs")
    /\ \E js \in JobLists : jobs' = js
    /\ pc' = "get_workflow_name"
    /\ UNCHANGED <<pvars, faults, run_url, want_logs, save_logs_dir, run, wf_name, failing_jobs,
                   successes, last_success, durations, baseline_p50, cmp, blob,
                   logs_path, cancellation_reason, warnings, raised, report>>

\* lines 60-61
GetWorkflowName ==
    /\ pc = "get_workflow_name"
    /\ calls' = Append(calls, "get_workflow_name")
    /\ requests' = Append(requests, "get_workflow")
    /\ wf_name' = Some("CI")
    /\ failing_jobs' = pick_failing_jobs(jobs)
    /\ pc' = "list_successful_runs"
    /\ UNCHANGED <<pvars, faults, run_url, want_logs, save_logs_dir, run, jobs, successes,
                   last_success, durations, baseline_p50, cmp, blob, logs_path,
                   cancellation_reason, warnings, raised, report>>

\* lines 64-73
ListSuccessfulRuns ==
    /\ pc = "list_successful_runs"
    /\ calls' = Append(calls, "list_successful_runs")
    /\ requests' = Append(requests, "list_success")
    /\ \E ss \in SuccessLists :
           /\ successes' = ss
           /\ durations' = durations_of(ss)
           /\ last_success' = last_success_of(ss, Val(run).started_at)
           /\ baseline_p50' = baseline_of(durations_of(ss))
    /\ pc' = "compare_since_last_success"
    /\ UNCHANGED <<pvars, faults, run_url, want_logs, save_logs_dir, run, jobs, wf_name,
                   failing_jobs, cmp, blob, logs_path, cancellation_reason,
                   warnings, raised, report>>

CompareSinceLastSuccess_always_logs ==
    /\ pc = "compare_since_last_success"
    /\ calls' = Append(calls, "compare_since_last_success")
    /\ requests' = IF IsNone(last_success) THEN requests ELSE Append(requests, "compare")
    /\ \E c \in CompareResults(last_success) : cmp' = c
    /\ pc' = "download_logs_zip"
    /\ UNCHANGED <<pvars, faults, run_url, want_logs, save_logs_dir, run, jobs, wf_name,
                   failing_jobs, successes, last_success, durations,
                   baseline_p50, blob, logs_path, cancellation_reason,
                   warnings, raised, report>>

\* lines 76-84
CompareSinceLastSuccess ==
    /\ pc = "compare_since_last_success"
    /\ calls' = Append(calls, "compare_since_last_success")
    /\ requests' = IF IsNone(last_success) THEN requests ELSE Append(requests, "compare")
    /\ \E c \in CompareResults(last_success) : cmp' = c
    /\ pc' = IF is_failed(Val(run)) \/ want_logs THEN "download_logs_zip" ELSE "gen_suspects"
    /\ UNCHANGED <<pvars, faults, run_url, want_logs, save_logs_dir, run, jobs, wf_name,
                   failing_jobs, successes, last_success, durations,
                   baseline_p50, blob, logs_path, cancellation_reason,
                   warnings, raised, report>>

\* a call of steps 1-4 raises: nothing catches it in analyze
DataSourceRaises_defaults(op) ==
    /\ pc = op
    /\ op = "get_run" => IsNone(parse_github_run_url(run_url).raised)
    /\ op = "compare_since_last_success" => ~IsNone(last_success)
    /\ calls' = Append(calls, op)
    /\ requests' = Append(requests, RequestOf[op])
    /\ faults' = Append(faults, op)
    /\ warnings' = Append(warnings, op)
    /\ report' = Some([run |-> run, workflow_name |-> wf_name, failing_jobs |-> <<>>,
                       baseline_p50_ms |-> None, last_success |-> None, compare |-> None,
                       suspects |-> <<>>, logs_path |-> None, cancellation_reason |-> None])
    /\ pc' = "done"
    /\ UNCHANGED <<pvars, run_url, want_logs, save_logs_dir, run, jobs, wf_name, failing_jobs,
                   successes, last_success, durations, baseline_p50, cmp, blob,
                   logs_path, cancellation_reason, raised>>

DataSourceRaises(op) ==
    /\ pc = op
    /\ op = "get_run" => IsNone(parse_github_run_url(run_url).raised)
    /\ op = "compare_since_last_success" => ~IsNone(last_success)
    /\ calls' = Append(calls, op)
    /\ requests' = Append(requests, RequestOf[op])
    /\ raised' = Some(op)
    /\ faults' = Append(faults, op)
    /\ pc' = "raised"
    /\ UNCHANGED <<pvars, run_url, want_logs, save_logs_dir, run, jobs, wf_name,
                   failing_jobs, successes, last_success, durations,
                   baseline_p50, cmp, blob, logs_path, cancellation_reason,
                   warnings, report>>

\* line 86
DownloadLogsZip ==
    /\ pc = "download_logs_zip"
    /\ calls' = Append(calls, "download_logs_zip")
    /\ requests' = Append(requests, "logs_zip")
    /\ \E b \in Archives : blob' = Some(b)
    /\ pc' = "extract_logs"
    /\ UNCHANGED <<pvars, faults, run_url, want_logs, save_logs_dir, run, jobs, wf_name,
                   failing_jobs, successes, last_success, durations,
                   baseline_p50, cmp, logs_path, cancellation_reason, warnings,
                   raised, report>>

DownloadLogsZipRaises_propagates ==
    /\ pc = "download_logs_zip"
    /\ calls' = Append(calls, "download_logs_zip")
    /\ requests' = Append(requests, "logs_zip")
    /\ raised' = Some("download_logs_zip")
    /\ faults' = Append(faults, "download_logs_zip")
    /\ pc' = "raised"
    /\ UNCHANGED <<pvars, run_url, want_logs, save_logs_dir, run, jobs, wf_name,
                   failing_jobs, successes, last_success, durations,
                   baseline_p50, cmp, blob, logs_path, cancellation_reason,
                   warnings, report>>

\* lines 86, 130-132: the download raises, the warning is printed
DownloadLogsZipRaises ==
    /\ pc = "download_logs_zip"
    /\ calls' = Append(calls, "download_logs_zip")
    /\ requests' = Append(requests, "logs_zip")
    /\ warnings' = Append(warnings, "download_logs_zip")
    /\ faults' = Append(faults, "download_logs_zip")
    /\ pc' = "gen_suspects"
    /\ UNCHANGED <<pvars, run_url, want_logs, save_logs_dir, run, jobs, wf_name,
                   failing_jobs, successes, last_success, durations,
                   baseline_p50, cmp, blob, logs_path, cancellation_reason,
                   raised, report>>

\* lines 90-125: log_lines of the failing jobs, then the cancellation reason
ExtractLogs ==
    /\ pc = "extract_logs"
    /\ jobs' = extract_all(Val(run), jobs, failing_jobs, Val(blob))
    /\ cancellation_reason' = infer_cancellation(Val(run), jobs', failing_jobs)
    /\ pc' = IF IsNone(save_logs_dir) THEN "gen_suspects" ELSE "save_logs"
    /\ UNCHANGED <<pvars, faults, run_url, want_logs, save_logs_dir, run, wf_name, failing_jobs,
                   successes, last_success, durations, baseline_p50, cmp, blob,
                   logs_path, calls, requests, warnings, raised, report>>

\* lines 126-129
SaveLogs ==
    /\ pc = "save_logs"
    /\ logs_path' = Some(logs_file_of(save_logs_dir, Val(run)))
    /\ pc' = "gen_suspects"
    /\ UNCHANGED <<pvars, faults, run_url, want_logs, save_logs_dir, run, jobs, wf_name,
                   failing_jobs, successes, last_success, durations,
                   baseline_p50, cmp, blob, cancellation_reason, calls, requests,
                   warnings, raised, report>>

\* lines 126-128, 130-132: mkdir or write_bytes raises (OSError)
SaveLogsRaises ==
    /\ pc = "save_logs"
    /\ warnings' = Append(warnings, "save_logs")
    /\ faults' = Append(faults, "save_logs")
    /\ pc' = "gen_suspects"
    /\ UNCHANGED <<pvars, run_url, want_logs, save_logs_dir, run, jobs, wf_name,
                   failing_jobs, successes, last_success, durations,
                   baseline_p50, cmp, blob, logs_path, cancellation_reason,
                   calls, requests, raised, report>>

\* lines 135-147
GenSuspects ==
    /\ pc = "gen_suspects"
    /\ report' = Some([run |-> Val(run),
                       workflow_name |-> Val(wf_name),
                       failing_jobs |-> failing_jobs,
                       baseline_p50_ms |-> baseline_p50,
                       last_success |-> last_success,
                       compare |-> cmp,
                       suspects |-> gen_suspects(Val(run), jobs, cmp, baseline_p50),
                       logs_path |-> logs_path,
                       cancellation_reason |-> cancellation_reason])
    /\ pc' = "done"
    /\ UNCHANGED <<pvars, faults, run_url, want_logs, save_logs_dir, run, jobs, wf_name,
                   failing_jobs, successes, last_success, durations,
                   baseline_p50, cmp, blob, logs_path, cancellation_reason,
                   calls, requests, warnings, raised>>

Next ==
    \/ GetRun
    \/ GetRunMalformed
    \/ ListRunJobs
    \/ GetWorkflowName
    \/ ListSuccessfulRuns
    \/ CompareSinceLastSuccess
    \/ \E op \in FatalOps : DataSourceRaises(op)
    \/ DownloadLogsZip
    \/ DownloadLogsZipRaises
    \/ ExtractLogs
    \/ SaveLogs
    \/ SaveLogsRaises
    \/ GenSuspects

Spec == InitAnalyze /\ [][Next]_vars

---------------------------------------------------------------------------
(* Properties of analyze *)

\* a conclusion as a case-insensitive comparison sees it
Folded(conclusion) == lower(OrEmpty(conclusion))

\* the duration of a sampled run in ms
DurationOf(r) == (r.updated_at - r.started_at) * 1000

\* C2: Report.failing_jobs is exactly the sub-sequence, in the same relative
\* order, of the jobs whose conclusion is failure, failed or cancelled
\* compared case-insensitively; a job whose conclusion is success, skipped
\* or absent is never in it.
C2_FailingJobsAreTheFailingSubsequence ==
    pc = "done" =>
        LET fj == Val(report).failing_jobs
        IN  /\ \A k \in 1..Len(fj) : fj[k] \in 1..Len(jobs)
            /\ \A k \in 1..(Len(fj) - 1) : fj[k] < fj[k + 1]
            /\ \A i \in 1..Len(jobs) :
                   (\E k \in 1..Len(fj) : fj[k] = i)
                       <=> Folded(jobs[i].conclusion) \in {FAILURE, FAILED, CANCELLED}
            /\ \A i \in 1..Len(jobs) :
                   jobs[i].conclusion \in {None, Some(SUCCESS), Some(SKIPPED)}
                       => \A k \in 1..Len(fj) : fj[k] # i

C2_Witness ==
    /\ pc = "done"
    /\ Len(jobs) = 2
    /\ jobs[1].conclusion = Some(SKIPPED)
    /\ jobs[2].conclusion = Some(FAILURE_CAPITALISED)
    /\ Val(report).failing_jobs = <<2>>

\* C3: Report.baseline_p50_ms is present iff list_successful_runs returned at
\* least one run, and then equals the median of the durations of all sampled
\* runs, the value 0 included.
C3_BaselinePresentIffSampled ==
    pc = "done" =>
        LET b == Val(report).baseline_p50_ms
            d == [i \in 1..Len(successes) |-> DurationOf(successes[i])]
            n == Len(d)
        IN  /\ (~IsNone(b)) <=> (successes # <<>>)
            /\ successes # <<>> =>
                   Val(b) = IF n % 2 = 1 THEN KthSmallest(d, (n + 1) \div 2)
                            ELSE (KthSmallest(d, n \div 2) + KthSmallest(d, (n \div 2) + 1)) \div 2

C3_Witness ==
    /\ pc = "done"
    /\ Len(successes) = 1
    /\ DurationOf(successes[1]) = 0
    /\ Val(report).baseline_p50_ms = Some(0)

\* C4: cancellation_reason is present in a Report only if the run's
\* conclusion is cancelled (the comparison the code makes is
\* case-insensitive); for every other run it is absent.
C4_ReasonOnlyForCancelledRuns ==
    /\ ~IsNone(cancellation_reason) => Folded(Val(run).conclusion) = CANCELLED
    /\ pc = "done" =>
           (~IsNone(Val(report).cancellation_reason)
                => Folded(Val(report).run.conclusion) = CANCELLED)

C4_Witness ==
    /\ pc = "done"
    /\ Val(report).run.conclusion = Some(CANCELLED)
    /\ Val(report).cancellation_reason = Some(REASON_TIMEOUT)

\* the steps of the log stage that can raise
LogStageOps == {"download_logs_zip", "save_logs"}

LogStageFailed == \E f \in LogStageOps : f \in Range(faults)

\* the fields of the Report that do not depend on the log stage hold what
\* the data-source answers determine
ReportRestIntact ==
    LET R == Val(report)
    IN  /\ R.run = Val(run)
        /\ R.workflow_name = Val(wf_name)
        /\ R.failing_jobs = pick_failing_jobs(jobs)
        /\ R.baseline_p50_ms = baseline_of(durations_of(successes))
        /\ R.last_success = last_success_of(successes, Val(run).started_at)
        /\ R.compare = cmp
        /\ R.compare \in CompareResults(R.last_success)
        /\ R.suspects = gen_suspects(Val(run), jobs, cmp, R.baseline_p50_ms)

\* the claim as stated: whichever step of the log stage raises, log_lines,
\* cancellation_reason and logs_path are all absent
C5_AsStated ==
    LogStageFailed =>
        /\ raised = None
        /\ pc = "done" =>
               /\ ~IsNone(report)
               /\ \A k \in 1..Len(failing_jobs) : IsNone(jobs[failing_jobs[k]].log_lines)
               /\ IsNone(Val(report).cancellation_reason)
               /\ IsNone(Val(report).logs_path)
               /\ ReportRestIntact

\* C5 (amended): an error of the log stage never propagates: analyze prints
\* one warning and still returns a Report whose logs_path is absent and whose
\* run, workflow name, failing jobs, baseline, last success, diff and
\* suspects are unaffected. When download_logs_zip raised, every failing
\* job's log_lines and cancellation_reason are absent; when saving the
\* archive raised, they keep what the stage computed before the error.
C5_LogStageErrorsAreCaught ==
    \A f \in LogStageOps :
        f \in Range(faults) =>
            /\ raised = None
            /\ warnings = <<f>>
            /\ pc \in {"gen_suspects", "done"}
            /\ IsNone(logs_path)
            /\ f = "download_logs_zip" =>
                   /\ \A k \in 1..Len(failing_jobs) : IsNone(jobs[failing_jobs[k]].log_lines)
                   /\ IsNone(cancellation_reason)
            /\ f = "save_logs" =>
                   /\ \A i \in 1..Len(jobs) :
                          jobs[i].log_lines # None =>
                              /\ \E k \in 1..Len(failing_jobs) : failing_jobs[k] = i
                              /\ is_failed(Val(run))
                   /\ cancellation_reason = infer_cancellation(Val(run), jobs, failing_jobs)
            /\ pc = "done" =>
                   /\ ~IsNone(report)
                   /\ IsNone(Val(report).logs_path)
                   /\ Val(report).cancellation_reason = cancellation_reason
                   /\ ReportRestIntact

C5_Witness ==
    /\ pc = "done"
    /\ faults = <<"download_logs_zip">>
    /\ Val(run).conclusion = Some(CANCELLED)
    /\ Len(failing_jobs) = 2
    /\ IsNone(Val(report).cancellation_reason)
    /\ Val(report).suspects = <<SUSPECT_LOCKFILE, SUSPECT_WORKFLOW>>

\* the data-source operations in the order analyze invokes them
CallOrder == <<"get_run", "list_run_jobs", "get_workflow_name",
               "list_successful_runs", "compare_since_last_success",
               "download_logs_zip">>

\* C6: when a data-source call of steps 1-4 raises, analyze propagates the
\* error, returns no Report, makes no further data-source call (the log
\* archive is never downloaded) and does not repeat the failed call.
C6_FatalErrorsPropagate ==
    \A op \in FatalOps :
        op \in Range(faults) =>
            /\ pc = "raised"
            /\ raised = Some(op)
            /\ IsNone(report)
            /\ warnings = <<>>
            /\ faults = <<op>>
            /\ \E k \in 1..5 : CallOrder[k] = op /\ calls = SubSeq(CallOrder, 1, k)
            /\ IsNone(blob)

C6_Witness ==
    /\ pc = "raised"
    /\ raised = Some("compare_since_last_success")
    /\ Len(calls) = 5
    /\ ~IsNone(last_success)

\* a failed job and a cancelled job among the run's jobs
SiblingFailure ==
    /\ \E i \in 1..Len(jobs) : Folded(jobs[i].conclusion) \in {FAILURE, FAILED}
    /\ \E i \in 1..Len(jobs) : Folded(jobs[i].conclusion) = CANCELLED

\* some extracted log line of a failing job holds one of the phrases
LogTextHolds(phrases) ==
    \E k \in 1..Len(failing_jobs) :
        LET ll == jobs[failing_jobs[k]].log_lines
        IN  /\ ~IsNone(ll)
            /\ \E i \in 1..Len(Val(ll)) : \E ph \in phrases : contains(ph, lower(Val(ll)[i]))

\* the reason the priority order of the claim gives
ReasonByPriority ==
    IF SiblingFailure THEN Some(REASON_AFTER_FAILURE)
    ELSE IF LogTextHolds({TIMEOUT, TIMED_OUT}) THEN Some(REASON_TIMEOUT)
    ELSE IF LogTextHolds({OPERATION_CANCELED, OPERATION_CANCELLED})
    THEN Some(REASON_OPERATION_CANCELED)
    ELSE None

\* the claim as stated: for every cancelled run, whether or not the log
\* archive could be downloaded
C7_AsStated ==
    (pc = "done" /\ Folded(Val(run).conclusion) = CANCELLED)
        => Val(report).cancellation_reason = ReasonByPriority

\* C7 (amended): for every cancelled run whose log archive was downloaded
\* without error, a failed job together with a cancelled job gives the
\* 'cancelled after a failure in another job' reason whatever the log text
\* holds; otherwise the log text decides, the timeout phrases before the
\* 'operation was canceled' phrases, and the reason is absent when neither
\* occurs. When download_logs_zip raised, the reason is absent.
C7_SiblingFailureFirst ==
    (pc = "done" /\ Folded(Val(run).conclusion) = CANCELLED) =>
        IF \E i \in 1..Len(faults) : faults[i] = "download_logs_zip"
        THEN IsNone(Val(report).cancellation_reason)
        ELSE Val(report).cancellation_reason = ReasonByPriority

C7_Witness ==
    /\ pc = "done"
    /\ Val(run).conclusion = Some(CANCELLED)
    /\ SiblingFailure
    /\ LogTextHolds({TIMED_OUT})
    /\ Val(report).cancellation_reason = Some(REASON_AFTER_FAILURE)

\* the indices of the sampled runs that started strictly before the run
EarlierSampled ==
    {i \in 1..Len(successes) : successes[i].started_at < Val(run).started_at}

\* C12: Report.last_success is the first sampled run, in the order the
\* provider returned them, that started strictly before the current run (not
\* the one with the greatest timestamp); it is absent exactly when no sampled
\* run started strictly earlier; a run sampled later never replaces it, and
\* the durations of all sampled runs count toward the baseline median.
C12_LastSuccessIsFirstEarlier ==
    pc = "done" =>
        LET ls == Val(report).last_success
            d  == [i \in 1..Len(successes) |-> DurationOf(successes[i])]
            n  == Len(d)
        IN  /\ IsNone(ls) <=> EarlierSampled = {}
            /\ EarlierSampled # {} =>
                   ls = Some(successes[CHOOSE i \in EarlierSampled :
                                           \A j \in EarlierSampled : i <= j])
            /\ durations = d
            /\ n > 0 =>
                   Val(report).baseline_p50_ms =
                       Some(IF n % 2 = 1 THEN KthSmallest(d, (n + 1) \div 2)
                            ELSE (KthSmallest(d, n \div 2) + KthSmallest(d, (n \div 2) + 1)) \div 2)

C12_Witness ==
    /\ pc = "done"
    /\ Len(successes) = 2
    /\ successes[1].started_at < successes[2].started_at
    /\ successes[2].started_at < Val(run).started_at
    /\ Val(report).last_success = Some(successes[1])
    /\ Val(report).baseline_p50_ms = Some(30000)

\* the steps of the log stage
LogStagePcs == {"download_logs_zip", "extract_logs", "save_logs"}

\* C13: the data-source operations are invoked in the order get_run,
\* list_run_jobs, get_workflow_name, list_successful_runs,
\* compare_since_last_success, download_logs_zip, each at most once;
\* download_logs_zip is invoked exactly once when the run's conclusion is
\* failure/failed/cancelled or logs were requested and every earlier step
\* succeeded, and never otherwise; suspects are generated only after the log
\* stage has finished.
C13_CallsInFixedOrderOnce ==
    /\ \E k \in 0..6 : calls = SubSeq(CallOrder, 1, k)
    /\ pc = "raised" => \A i \in 1..Len(calls) : calls[i] # "download_logs_zip"
    /\ pc \in {"gen_suspects", "done"} =>
           LET downloads == {i \in 1..Len(calls) : calls[i] = "download_logs_zip"}
               wanted    == Folded(Val(run).conclusion) \in {FAILURE, FAILED, CANCELLED}
                            \/ want_logs
           IN  /\ Len(calls) >= 5
               /\ Cardinality(downloads) = IF wanted THEN 1 ELSE 0
    /\ pc \in LogStagePcs => IsNone(report)
    /\ ~IsNone(report) => pc = "done"

C13_Witness ==
    /\ pc = "done"
    /\ Val(run).conclusion = Some(SUCCESS)
    /\ want_logs
    /\ calls = CallOrder
    /\ ~IsNone(report)

\* a reference with a wrong host or with missing path segments
Malformed(url) ==
    \/ HostOf(url) \notin {GITHUB_COM, WWW_GITHUB_COM}
    \/ Len(SegmentsOf(url)) < 5

\* C14: when the run reference is malformed (wrong host or missing path
\* segments) the failure is raised before any request is sent to the CI
\* provider: no request for the run, jobs, workflow, history, diff or logs
\* is made in that execution, and no Report is produced.
C14_MalformedFailsBeforeAnyRequest ==
    Malformed(run_url) =>
        /\ requests = <<>>
        /\ IsNone(report)
        /\ IsNone(run)
        /\ pc \in {"get_run", "raised"}
        /\ pc = "raised" => raised = Some(VALUE_ERROR) /\ calls = <<"get_run">>

C14_Witness ==
    /\ pc = "raised"
    /\ run_url = U_WRONG_HOST
    /\ raised = Some(VALUE_ERROR)
    /\ requests = <<>>

\* C17: whenever the log archive was fetched, for a failed run or because
\* logs were requested, every failing job's log_lines is what the extractor
\* returns for (archive, job name, name of the job's first failing step or
\* absent), also when logs were requested for a run that is not itself
\* failed but has failing jobs; log_lines of the other jobs is never written.
C17_AsStated ==
    (pc \in {"save_logs", "gen_suspects", "done"} /\ ~IsNone(blob)) =>
        \A i \in 1..Len(jobs) :
            IF \E k \in 1..Len(failing_jobs) : failing_jobs[k] = i
            THEN jobs[i].log_lines =
                     extract_failing_step_logs(Val(blob), jobs[i].name,
                                               failing_step_name_of(jobs[i]),
                                               DEFAULT_MAX_LINES, DEFAULT_CONTEXT_LINES)
            ELSE IsNone(jobs[i].log_lines)

---------------------------------------------------------------------------
(* Specification of the entry lookup of extract_failing_step_logs over
   bounded archives *)

MaxEntries == 3

E_BUILD_SETUP == <<"1","_","b","u","i","l","d","/","1","_","s","e","t","u","p",".","t","x","t">>

E_DEPLOY_TEST == <<"2","_","d","e","p","l","o","y","/","2","_","t","e","s","t",".","t","x","t">>

E_0_BUILD == <<"0","_","b","u","i","l","d",".","t","x","t">>

E_BUILD_SYSTEM == <<"1","_","b","u","i","l","d","/","s","y","s","t","e","m",".","t","x","t">>

\* entry names of the flat layout ('<n>_<name>.txt') and of the nested
\* layout ('<jobIndex>_<jobName>/<index>_<stepName>.txt')
EntryNames ==
    {E_1_TEST, E_0_BUILD, E_BUILD_SETUP, E_BUILD_TEST, E_DEPLOY_TEST, E_BUILD_SYSTEM}

\* archives of up to MaxEntries distinct entries; the one line of an entry
\* is its own name, so that an excerpt tells which entry was read
LocateArchives ==
    {[valid |-> TRUE, entries |-> [i \in 1..Len(q) |-> EntryOf(q[i], <<q[i]>>)]] :
        q \in Distinct(SeqsUpTo(EntryNames, MaxEntries))}

InitLocate ==
    /\ fn = "idle"
    /\ args \in {[logs_zip |-> z, failing_job_name |-> j, failing_step_name |-> st,
                  max_lines |-> DEFAULT_MAX_LINES, context_lines |-> DEFAULT_CONTEXT_LINES] :
                    z \in LocateArchives,
                    j \in {N_BUILD, N_DEPLOY},
                    st \in {None, Some(N_TEST), Some(N_SETUP)}}
    /\ ret = None
    /\ after = None
    /\ AnalyzeIdle

CallLocate ==
    /\ fn = "idle"
    /\ fn' = "returned"
    /\ ret' = Some(extract_failing_step_logs(args.logs_zip, args.failing_job_name,
                       args.failing_step_name, args.max_lines, args.context_lines))
    /\ after' = Some(args)
    /\ UNCHANGED <<args, avars>>

NextLocate == CallLocate

SpecLocate == InitLocate /\ [][NextLocate]_vars

\* s is '<digits>_<name>.txt', letter case ignored
IsNumberedTxt(name, s) ==
    \E k \in 1..Len(s) :
        /\ \A i \in 1..k : s[i] \in Range(Digits)
        /\ lower(SubSeq(s, k + 1, Len(s))) = lower(<<"_">> \o name \o DOT_TXT)

\* s is '<digits>_<name>', letter case ignored
IsNumbered(name, s) ==
    \E k \in 1..Len(s) :
        /\ \A i \in 1..k : s[i] \in Range(Digits)
        /\ lower(SubSeq(s, k + 1, Len(s))) = lower(<<"_">> \o name)

\* the entry the excerpt was read from (each entry's only line is its name)
EntryRead == IF IsNone(Val(ret)) THEN None ELSE Some(Val(Val(ret))[1])

\* the first name of the archive that satisfies the flags, as an Optional
FirstName(names, hit) ==
    IF \E i \in 1..Len(names) : hit[i]
    THEN Some(names[CHOOSE i \in 1..Len(names) : hit[i] /\ \A j \in 1..(i - 1) : ~hit[j]])
    ELSE None

\* C18: when no entry matches the step name, or no step name is given, the
\* entry is located by job name: first an entry whose basename is
\* '<digits>_<jobName>.txt' (case-insensitive), otherwise the first '.txt'
\* entry whose name contains the job name as a case-insensitive substring
\* and does not contain 'system'; absent only if there is no such entry. In
\* the nested layout a job without a failing step resolves to an entry of
\* its own folder.
C18_AsStated ==
    (fn = "returned"
        /\ IsNone(find_by_step(namelist(args.logs_zip), args.failing_step_name))) =>
        LET names == namelist(args.logs_zip)
            job   == args.failing_job_name
            exact == FirstName(names, [i \in 1..Len(names) |->
                        LET parts == split(names[i], "/")
                        IN  IsNumberedTxt(job, parts[Len(parts)])])
            sub   == FirstName(names, [i \in 1..Len(names) |->
                        /\ endswith(names[i], DOT_TXT)
                        /\ contains(lower(job), lower(names[i]))
                        /\ ~contains(SYSTEM, lower(names[i]))])
        IN  EntryRead = IF ~IsNone(exact) THEN exact ELSE sub

\* the entries in the folder of a job that hold the log of a step
OwnStepEntries(names, job, step) ==
    {i \in 1..Len(names) :
        LET parts == split(names[i], "/")
        IN  Len(parts) = 2 /\ IsNumbered(job, parts[1]) /\ IsNumberedTxt(step, parts[2])}

\* every entry of the archive is '<folder>/<file>'
IsNestedLayout(names) == \A i \in 1..Len(names) : Len(split(names[i], "/")) = 2

\* C19: in the nested layout, when the folder of the target job holds an
\* entry for the failing step, extract_failing_step_logs(archive, jobName,
\* stepName) reads an entry of that folder, never an entry of another job's
\* folder, also when another job has a step of the same name.
C19_AsStated ==
    (fn = "returned" /\ ~IsNone(args.failing_step_name)
        /\ IsNestedLayout(namelist(args.logs_zip))) =>
        LET names == namelist(args.logs_zip)
            own   == OwnStepEntries(names, args.failing_job_name, Val(args.failing_step_name))
        IN  own # {} =>
                /\ ~IsNone(EntryRead)
                /\ LET parts == split(Val(EntryRead), "/")
                   IN  Len(parts) = 2 /\ IsNumbered(args.failing_job_name, parts[1])

---------------------------------------------------------------------------
(* cli.cmd_analyze and ai_analysis: the command around analyze *)

\* ai_analysis.py lines 77-79
ai_error_patterns == <<
    <<"e","r","r","o","r">>,
    <<"E","r","r","o","r">>,
    <<"E","R","R","O","R">>,
    <<"f","a","i","l","e","d">>,
    <<"F","a","i","l","e","d">>,
    <<"F","A","I","L","E","D">>,
    <<"f","a","t","a","l">>,
    <<"F","a","t","a","l">>,
    <<"F","A","T","A","L">>,
    <<"E","x","c","e","p","t","i","o","n">>,
    <<"T","r","a","c","e","b","a","c","k">>,
    <<"a","s","s","e","r","t","i","o","n">>,
    <<"A","s","s","e","r","t","i","o","n","E","r","r","o","r">>,
    <<"e","x","i","t"," ","c","o","d","e">>,
    <<"e","x","i","t"," ","s","t","a","t","u","s">>
>>

\* ai_analysis.extract_error_lines: the patterns are compared case-sensitively
extract_error_lines(log_lines) ==
    LET IsErr(line) == \E k \in DOMAIN ai_error_patterns : contains(ai_error_patterns[k], line)
    IN  SelectSeq(log_lines, IsErr)

\* ai_analysis.py lines 30-31: log_lines[-100:], error_lines[-20:]
AI_LOG_TAIL == 100

AI_ERROR_TAIL == 20

MSG_NEEDS_PACKAGE == "AI analysis requires OpenAI package. Install with: pip install 'ci-doctor[ai]' or pip install -e '.[ai]'"

MSG_AI_FAILED == "AI analysis failed: service error"

\* the ways the summarization service can answer a request
AiServices == {"answers", "answers_blank", "import_error", "service_error"}

\* ai_analysis.analyze_with_ai: the string returned. The client package
\* missing and every other error are caught (lines 69-72) and returned as a
\* message; no path returns None.
analyze_with_ai(workflow_name, failing_jobs_data, log_lines, error_lines, api_key, service) ==
    LET prompt == [workflow |-> workflow_name,
                   job_summary |-> failing_jobs_data,
                   recent_logs |-> LastN(log_lines, AI_LOG_TAIL),
                   recent_errors |-> LastN(error_lines, AI_ERROR_TAIL)]
    IN  CASE service = "import_error"  -> Some(MSG_NEEDS_PACKAGE)
          [] service = "service_error" -> Some(MSG_AI_FAILED)
          [] service = "answers_blank" -> Some("")
          [] service = "answers"       -> Some("Diagnosis and suggested fix")

\* a Python value used as a condition: an Optional string is true when it is
\* present and not empty
truthy_text(o) == ~IsNone(o) /\ Val(o) # ""

\* cli.py line 42
EXIT_MISSING_TOKEN == 10

F_JSON == <<"j","s","o","n">>

F_JSON_UPPER == <<"J","S","O","N">>

F_PRETTY == <<"p","r","e","t","t","y">>

RECURSIVE all_log_lines_of(_)
\* cli.py lines 69-76: the log lines of the failing jobs that have any
all_log_lines_of(fjs) ==
    IF fjs = <<>> THEN <<>>
    ELSE (IF ~IsNone(Head(fjs).log_lines) /\ Val(Head(fjs).log_lines) # <<>>
          THEN Val(Head(fjs).log_lines) ELSE <<>>)
         \o all_log_lines_of(Tail(fjs))

\* cli.py lines 64-85: ai_analysis
ai_analysis_of(ai, openai_key, rep, service) ==
    IF ai /\ ~IsNone(openai_key) /\ rep.failing_jobs # <<>>
    THEN LET job_data == [i \in 1..Len(rep.failing_jobs) |->
                             [name |-> rep.failing_jobs[i].name,
                              conclusion |-> rep.failing_jobs[i].conclusion]]
             all_log_lines == all_log_lines_of(rep.failing_jobs)
         IN  analyze_with_ai(rep.workflow_name, job_data, all_log_lines,
                             extract_error_lines(all_log_lines), Val(openai_key), service)
    ELSE None

\* cli.py lines 87-98: what is printed. In the json format the field
\* 'ai_analysis' is added, in the pretty format the 'AI Suggestions' panel
\* is printed, when ai_analysis is a non-empty string.
output_of(format_, rep, ai_analysis) ==
    [format |-> IF lower(format_) = F_JSON THEN "json" ELSE "pretty",
     report |-> rep,
     ai_analysis |-> IF truthy_text(ai_analysis) THEN ai_analysis ELSE None]

\* cli.cmd_analyze: a is the command line, the environment and the answers
\* of the collaborators (analysis: what analyze returns or raises)
cmd_analyze(a) ==
    LET gh_token   == IF ~IsNone(a.token) THEN a.token ELSE a.env_github_token
        openai_key == IF a.ai THEN a.env_openai_key ELSE None
        ai         == a.ai /\ ~IsNone(openai_key)
        want       == a.save_logs \/ ai
        dir        == IF a.save_logs THEN Some("artifacts") ELSE None
    IN  IF IsNone(gh_token)
        THEN [exit |-> Some(EXIT_MISSING_TOKEN), raised |-> None, analyze_args |-> None,
              output |-> None]
        ELSE IF ~IsNone(a.analysis.raised)
        THEN [exit |-> None, raised |-> a.analysis.raised,
              analyze_args |-> Some([want_logs |-> want, save_logs_dir |-> dir]),
              output |-> None]
        ELSE LET rep == Val(a.analysis.value)
             IN  [exit |-> None, raised |-> None,
                  analyze_args |-> Some([want_logs |-> want, save_logs_dir |-> dir]),
                  output |-> Some(output_of(a.format_, rep,
                                            ai_analysis_of(ai, openai_key, rep, a.service)))]

---------------------------------------------------------------------------
(* Specification of cmd_analyze over bounded command lines *)

\* a Report as cmd_analyze reads it: failing_jobs holds the JobMeta objects
CliReportOf(fjs) ==
    [run |-> RunMetaOf("7", Some(FAILURE), "push", 100, 250), workflow_name |-> "CI",
     failing_jobs |-> fjs, baseline_p50_ms |-> None, last_success |-> None,
     compare |-> None, suspects |-> <<SUSPECT_LOCKFILE>>, logs_path |-> None,
     cancellation_reason |-> None]

CliJob(log_lines) ==
    [JobMetaOf(N_BUILD, Some(FAILURE), <<StepOf(N_TEST, Some(FAILURE))>>)
        EXCEPT !.log_lines = log_lines]

\* what analyze hands to the command: a Report without failing jobs, with a
\* failing job without an excerpt, with a failing job with one, or an error
CliAnalyses ==
    {Raise("GitHubAPIError"),
     Return(CliReportOf(<<>>)),
     Return(CliReportOf(<<CliJob(None)>>)),
     Return(CliReportOf(<<CliJob(Some(<<L_OK, L_CANCELED, L_EXIT>>))>>))}

InitCli ==
    /\ fn = "idle"
    /\ args \in [token : {None, Some("t")},
                 env_github_token : {None, Some("e")},
                 env_openai_key : {None, Some("k")},
                 ai : BOOLEAN,
                 save_logs : BOOLEAN,
                 format_ : {F_PRETTY, F_JSON, F_JSON_UPPER},
                 analysis : CliAnalyses,
                 service : AiServices]
    /\ ret = None
    /\ after = None
    /\ AnalyzeIdle

CallCli ==
    /\ fn = "idle"
    /\ fn' = "returned"
    /\ ret' = Some(cmd_analyze(args))
    /\ after' = Some(args)
    /\ UNCHANGED <<args, avars>>

NextCli == CallCli

SpecCli == InitCli /\ [][NextCli]_vars

\* the summarization was requested and the command got as far as a Report
\* with failing jobs
SummaryRequested ==
    /\ args.ai
    /\ ~IsNone(args.token) \/ ~IsNone(args.env_github_token)
    /\ IsNone(args.analysis.raised)
    /\ Val(args.analysis.value).failing_jobs # <<>>

\* the summarization call fails (service error, client package missing) or
\* is unavailable (no key)
SummaryFailsOrUnavailable ==
    \/ args.service \in {"import_error", "service_error"}
    \/ IsNone(args.env_openai_key)

\* C15: when the optional summarization call fails (service error, missing
\* client package) or is unavailable, the command still completes and
\* outputs the Report, and the output holds no summary field or panel; every
\* other Report field is unchanged.
C15_AsStated ==
    (fn = "returned" /\ SummaryRequested /\ SummaryFailsOrUnavailable) =>
        /\ IsNone(Val(ret).exit)
        /\ IsNone(Val(ret).raised)
        /\ ~IsNone(Val(ret).output)
        /\ Val(Val(ret).output).report = Val(args.analysis.value)
        /\ IsNone(Val(Val(ret).output).ai_analysis)

=============================================================================
